---- MODULE Spec2Model ----
(***************************************************************************)
(* Model of book_stall.py: the column mapping (apply_mapping), the link    *)
(* rewriter (fix_drive_url, fixDriveUrl), the client-side search component *)
(* (performSearch, input.oninput, clearSearch, increaseLimit) and the page *)
(* itself (session flags, login prompt, admin panel, public search).       *)
(*                                                                         *)
(* A text value (a cell, a field, a query, a URL) is a sequence of         *)
(* one-character strings, so that strip, lower, split and substring search *)
(* are computed character by character.  Column names and field names are *)
(* only ever compared for equality and are plain strings.                  *)
(***************************************************************************)
EXTENDS Integers, Sequences, FiniteSets, TLC

VARIABLES
    df,             \* the raw table handed to apply_mapping (df_raw)
    mapping,        \* the mapping handed to apply_mapping: an ordered dict
    mapped,         \* what apply_mapping returned or raised
    allData,        \* the records embedded in the search component
    inputValue,     \* input.value of the search box
    clearBtn,       \* whether the clear button of the search box is displayed
    dropdown,       \* the suggestion dropdown
    currentResults, \* the client's full result set
    displayLimit,   \* the client's paging window
    resultsArea,    \* what the results area shows
    cards,          \* the result cards rendered in the results area, in order
    showMore,       \* whether the Show More button is rendered
    moreClicks,     \* Show More clicks since the latest performSearch call
    lastCall,       \* the arguments of the latest performSearch call
    link,           \* the parts an image link was written from
    raw_url,        \* the image link as text, the input of fix_drive_url
    stored,         \* what fix_drive_url made of raw_url (the row's BK_image)
    shown,          \* what the client's fixDriveUrl made of the stored link
    sheet,          \* the table the remote sheet holds
    cfg,            \* config.json as load_config and the defaults give it
    is_admin,       \* st.session_state.is_admin
    show_admin_login, \* st.session_state.show_admin_login
    df_raw,         \* df_raw of the latest run: <<>> is None, else <<table>>
    load_error,     \* whether the latest run of the script recorded a load error
    new_mapping,    \* the selections of the admin form, or that it is not rendered
    page,           \* what the latest run of the script rendered
    event           \* the interaction that started the latest run

vars == <<df, mapping, mapped, allData, inputValue, clearBtn, dropdown,
          currentResults, displayLimit, resultsArea, cards, showMore,
          moreClicks, lastCall, link, raw_url, stored, shown, sheet, cfg,
          is_admin, show_admin_login, df_raw, load_error, new_mapping, page,
          event>>

links == <<link, raw_url, stored, shown>>

session == <<sheet, cfg, is_admin, show_admin_login, df_raw, load_error,
             new_mapping, page, event>>

(***************************************************************************)
(* Text primitives (Python str / JavaScript String)                        *)
(***************************************************************************)
Whitespace == {" "}

UpperCase == <<"A","B","C","D","E","F","G","H","I","J","K","L","M",
               "N","O","P","Q","R","S","T","U","V","W","X","Y","Z">>

LowerCase == <<"a","b","c","d","e","f","g","h","i","j","k","l","m",
               "n","o","p","q","r","s","t","u","v","w","x","y","z">>

LowerChar(c) ==
    IF \E i \in 1..Len(UpperCase) : UpperCase[i] = c
    THEN LowerCase[CHOOSE i \in 1..Len(UpperCase) : UpperCase[i] = c]
    ELSE c

\* str.lower() / String.prototype.toLowerCase()
lower(s) == [i \in 1..Len(s) |-> LowerChar(s[i])]

RECURSIVE lstrip(_)
lstrip(s) == IF s # <<>> /\ Head(s) \in Whitespace THEN lstrip(Tail(s)) ELSE s

RECURSIVE rstrip(_)
rstrip(s) ==
    IF s # <<>> /\ s[Len(s)] \in Whitespace
    THEN rstrip(SubSeq(s, 1, Len(s) - 1))
    ELSE s

\* str.strip() / String.prototype.trim()
strip(s) == rstrip(lstrip(s))

\* the offsets at which p occurs in s
Occurrences(s, p) ==
    {i \in 0..(Len(s) - Len(p)) : SubSeq(s, i + 1, i + Len(p)) = p}

\* `p in s` / s.includes(p)
includes(s, p) == Occurrences(s, p) # {}

FirstOccurrence(s, p) ==
    CHOOSE i \in Occurrences(s, p) : \A j \in Occurrences(s, p) : i <= j

\* s.split(sep)[0]
SplitHead(s, sep) ==
    IF includes(s, sep) THEN SubSeq(s, 1, FirstOccurrence(s, sep)) ELSE s

\* what follows the first sep in s: sep.join(s.split(sep)[1:])
SplitRest(s, sep) == SubSeq(s, FirstOccurrence(s, sep) + Len(sep) + 1, Len(s))

\* s.split(sep)[1], for an s that contains sep
SplitSecond(s, sep) == SplitHead(SplitRest(s, sep), sep)

(***************************************************************************)
(* fix_drive_url                                                           *)
(***************************************************************************)
DriveHost == <<"d","r","i","v","e",".","g","o","o","g","l","e",".","c","o","m">>

FileD == <<"/","f","i","l","e","/","d","/">>

IdEq == <<"i","d","=">>

OpenQ == <<"o","p","e","n","?">>

ThumbnailPrefix ==
    <<"h","t","t","p","s",":","/","/">> \o DriveHost
        \o <<"/","t","h","u","m","b","n","a","i","l","?","i","d","=">>

ThumbnailSuffix == <<"&","s","z","=","w","1","0","0","0">>

file_id_of(url) ==
    IF includes(url, FileD)
    THEN SplitHead(SplitSecond(url, FileD), <<"/">>)
    ELSE IF includes(url, IdEq)
    THEN SplitHead(SplitSecond(url, IdEq), <<"&">>)
    ELSE IF includes(url, OpenQ) /\ includes(url, IdEq)
    THEN SplitHead(SplitSecond(url, IdEq), <<"&">>)
    ELSE <<>>

fix_drive_url(url) ==
    IF ~includes(url, DriveHost)
    THEN url
    ELSE IF file_id_of(url) # <<>>
    THEN ThumbnailPrefix \o file_id_of(url) \o ThumbnailSuffix
    ELSE url

(***************************************************************************)
(* apply_mapping                                                           *)
(*                                                                         *)
(* A raw table is [columns: the header, in order; rows: a sequence of      *)
(* functions from column name to cell text] with distinct column names.    *)
(* A cell holds the text astype(str) gives it, so an empty CSV cell (NaN)  *)
(* is the text "nan".  A mapping is a Python dict: a sequence of           *)
(* <<key, value>> pairs with distinct keys, in insertion order; the value  *)
(* "" is the form's "nothing selected".                                    *)
(***************************************************************************)
APP_FIELDS == <<"BK_Number", "BK_name", "BK_rate", "BK_row", "BK_image">>

required_fields == <<"BK_Number", "BK_name", "BK_rate", "BK_row">>

Range(s) == {s[i] : i \in 1..Len(s)}

dict_keys(d) == {d[i][1] : i \in 1..Len(d)}

dict_get(d, k) == d[CHOOSE i \in 1..Len(d) : d[i][1] = k][2]

\* k not in mapping or not mapping[k]
is_missing(m, k) == k \notin dict_keys(m) \/ dict_get(m, k) = ""

\* missing = [k for k in required_fields if k not in mapping or not mapping[k]]
missing_fields(m) ==
    LET Test(k) == is_missing(m, k) IN SelectSeq(required_fields, Test)

\* the items of mapping whose sheet_col is not in df.columns, by position
not_found_items(table, m) ==
    {i \in 1..Len(m) : m[i][2] \notin Range(table.columns)}

\* the first of them: where the loop over mapping.items() raises
first_not_found(table, m) ==
    CHOOSE i \in not_found_items(table, m) :
        \A j \in not_found_items(table, m) : i <= j

\* the APP_FIELDS positions that rename_map's comprehension visits for column c
rename_sources(m, c) ==
    {i \in 1..Len(APP_FIELDS) :
        /\ APP_FIELDS[i] \in dict_keys(m)
        /\ dict_get(m, APP_FIELDS[i]) # ""
        /\ dict_get(m, APP_FIELDS[i]) = c}

\* rename_map = {mapping[k]: k for k in APP_FIELDS if k in mapping and mapping[k]}:
\* a column that several fields are mapped to keeps the last of them
rename_map(m, c) ==
    IF rename_sources(m, c) = {}
    THEN c
    ELSE APP_FIELDS[CHOOSE i \in rename_sources(m, c) :
                        \A j \in rename_sources(m, c) : j <= i]

\* the header of df2 = df.rename(columns=rename_map)
renamed_columns(table, m) ==
    [i \in 1..Len(table.columns) |-> rename_map(m, table.columns[i])]

\* the positions of df2's columns named c
columns_named(table, m, c) ==
    {i \in 1..Len(table.columns) : renamed_columns(table, m)[i] = c}

MissingTokens == {<<"n","a","n">>, <<"N","o","n","e">>, <<"<","N","A",">">>}

\* Series.replace(["nan", "None", "<NA>"], ""): whole values only
replace_missing(v) == IF v \in MissingTokens THEN <<>> ELSE v

\* .astype(str).replace([...], "").str.strip(), and .apply(fix_drive_url) for BK_image
clean_cell(c, v) ==
    IF c = "BK_image"
    THEN fix_drive_url(strip(replace_missing(v)))
    ELSE strip(replace_missing(v))

\* df2[c] of one row after the loop over APP_FIELDS; a field no column of df2
\* carries is set to ""
field_value(table, m, row, c) ==
    IF columns_named(table, m, c) = {}
    THEN <<>>
    ELSE clean_cell(c, row[table.columns[CHOOSE i \in columns_named(table, m, c) : TRUE]])

\* df2["_search"]: the four fields joined by " ", lower-cased
search_blob(n, name, rate, rw) ==
    lower(n \o <<" ">> \o name \o <<" ">> \o rate \o <<" ">> \o rw)

mapped_row(table, m, row) ==
    [BK_Number |-> field_value(table, m, row, "BK_Number"),
     BK_name   |-> field_value(table, m, row, "BK_name"),
     BK_rate   |-> field_value(table, m, row, "BK_rate"),
     BK_row    |-> field_value(table, m, row, "BK_row"),
     BK_image  |-> field_value(table, m, row, "BK_image"),
     _search   |-> search_blob(field_value(table, m, row, "BK_Number"),
                               field_value(table, m, row, "BK_name"),
                               field_value(table, m, row, "BK_rate"),
                               field_value(table, m, row, "BK_row"))]

\* What a call gives: kind "ok" with the rows of df2, or the exception.
\* MappingIncomplete and ColumnNotFound are the two ValueErrors (lines 84, 88);
\* AttributeError is what `.str` raises when df2[c] is a DataFrame, that is when
\* df2 has two columns named c (a raw column already named c, and another one
\* renamed to c).
Outcome(kind, fields, column, found, rows) ==
    [kind |-> kind, fields |-> fields, column |-> column, found |-> found,
     rows |-> rows]

NotCalled == Outcome("none", <<>>, "", <<>>, <<>>)

\* apply_mapping with its two validations in the other order
apply_mapping_columns_first(table, m) ==
    IF not_found_items(table, m) # {}
    THEN Outcome("ColumnNotFound", <<>>, m[first_not_found(table, m)][2],
                 table.columns, <<>>)
    ELSE IF missing_fields(m) # <<>>
    THEN Outcome("MappingIncomplete", missing_fields(m), "", <<>>, <<>>)
    ELSE Outcome("ok", <<>>, "", <<>>,
                 [i \in 1..Len(table.rows) |-> mapped_row(table, m, table.rows[i])])

apply_mapping(table, m) ==
    IF missing_fields(m) # <<>>
    THEN Outcome("MappingIncomplete", missing_fields(m), "", <<>>, <<>>)
    ELSE IF not_found_items(table, m) # {}
    THEN Outcome("ColumnNotFound", <<>>, m[first_not_found(table, m)][2],
                 table.columns, <<>>)
    ELSE IF \E c \in Range(APP_FIELDS) : Cardinality(columns_named(table, m, c)) > 1
    THEN Outcome("AttributeError", <<>>, "", <<>>, <<>>)
    ELSE Outcome("ok", <<>>, "", <<>>,
                 [i \in 1..Len(table.rows) |-> mapped_row(table, m, table.rows[i])])

\* render_search_interface: df[APP_FIELDS + ["_search"]].to_json(orient="records")
search_json(result) == result.rows

(***************************************************************************)
(* Inputs of the mapping checks                                            *)
(***************************************************************************)
MaxRows == 2

Https == <<"h","t","t","p","s",":","/","/">>

\* https://drive.google.com/file/d/x/view
ShareLink == Https \o DriveHost \o FileD \o <<"x","/","v","i","e","w">>

\* Headers of raw tables: a sheet without and with an image column, and a sheet
\* whose own header already uses the app's name BK_image.
Sheets ==
    {<<"No", "Title", "Rate", "Rack">>,
     <<"No", "Title", "Rate", "Rack", "Img">>,
     <<"No", "Title", "Rate", "Rack", "BK_image">>}

\* Raw rows, given on every column a sheet can have: an ordinary row, and a row
\* of padded values, missing-value tokens and a padded missing-value token.
MapRowPool ==
    {[No |-> <<"7">>, Title |-> <<"A"," ","b">>, Rate |-> <<"2","5">>,
      Rack |-> <<"R","1">>, Img |-> ShareLink, BK_image |-> ShareLink],
     [No |-> <<" ","7","0">>, Title |-> <<" ","n","a","n">>,
      Rate |-> <<"n","a","n">>, Rack |-> <<"N","o","n","e">>,
      Img |-> <<"n","a","n">>, BK_image |-> <<"<","N","A",">">>]}

SeqsUpTo(S, n) == UNION {[1..k -> S] : k \in 0..n}

\* the table with header cols whose rows are the pool rows rs
TableOf(cols, rs) ==
    [columns |-> cols,
     rows |-> [i \in 1..Len(rs) |-> [c \in Range(cols) |-> rs[i][c]]]]

MapTables ==
    {TableOf(cols, rs) : cols \in Sheets, rs \in SeqsUpTo(MapRowPool, MaxRows)}

\* What a mapping may give each field: "" (nothing selected), the column meant
\* for it, a column that no sheet has, or a column another field also uses.
ColumnChoices ==
    [BK_Number |-> {"", "No", "Ghost"},
     BK_name   |-> {"", "Title", "No"},
     BK_rate   |-> {"", "Rate", "Gone"},
     BK_row    |-> {"", "Rack"},
     BK_image  |-> {"", "Img", "BK_image", "Title"}]

\* the form's key order, and a config file that lists the image first
KeyOrders ==
    {APP_FIELDS, <<"BK_image", "BK_Number", "BK_name", "BK_rate", "BK_row">>}

\* the dict with the keys of v, inserted in the order they have in order
DictOf(order, v) ==
    LET Kept(k) == k \in DOMAIN v
        ks == SelectSeq(order, Kept)
    IN [i \in 1..Len(ks) |-> <<ks[i], v[ks[i]]>>]

Mappings ==
    UNION {{DictOf(order, v) :
                order \in KeyOrders,
                v \in {w \in [K -> UNION {ColumnChoices[f] : f \in K}] :
                          \A f \in K : w[f] \in ColumnChoices[f]}} :
           K \in SUBSET Range(APP_FIELDS)}

(***************************************************************************)
(* The client's state before the component is rendered                     *)
(***************************************************************************)
\* let displayLimit = 50
PageSize == 50

\* the dropdown shows the first 7 matches
MaxSuggestions == 7

NoCall == [called |-> FALSE, query |-> <<>>, mode |-> "", exactId |-> <<>>,
           hadResults |-> FALSE]

NoDropdown == [shown |-> FALSE, all |-> <<>>, items |-> <<>>]

ClientIdle ==
    /\ allData = <<>>
    /\ inputValue = <<>>
    /\ clearBtn = FALSE
    /\ dropdown = NoDropdown
    /\ currentResults = <<>>
    /\ displayLimit = PageSize
    /\ resultsArea = "welcome"
    /\ cards = <<>>
    /\ showMore = FALSE
    /\ moreClicks = 0
    /\ lastCall = NoCall

client == <<allData, inputValue, clearBtn, dropdown, currentResults,
            displayLimit, resultsArea, cards, showMore, moreClicks, lastCall>>

(***************************************************************************)
(* The parts of the state a specification leaves alone                     *)
(***************************************************************************)
\* no image link is being rewritten
NotRewritten == [done |-> FALSE, value |-> <<>>]

\* the empty text
NoLink == [host |-> <<>>, shape |-> "none", file_id |-> <<>>, rest |-> <<>>,
           params |-> <<>>]

LinksIdle ==
    /\ link = NoLink
    /\ raw_url = <<>>
    /\ stored = NotRewritten
    /\ shown = NotRewritten

\* nothing rendered yet
NoPage == [rendered |-> FALSE, login_prompt |-> FALSE, wrong_password |-> FALSE,
           admin_panel |-> FALSE, mapping_form |-> FALSE,
           public_search |-> FALSE, search_component |-> FALSE,
           failed |-> FALSE]

NoEvent == [name |-> "", pwd |-> ""]

\* the configuration when config.json does not exist
DefaultConfig == [sheet_url |-> <<>>, sheet_name |-> "Sheet1", mapping |-> <<>>]

\* no session is running
SessionIdle ==
    /\ sheet = TableOf(<<>>, <<>>)
    /\ cfg = DefaultConfig
    /\ is_admin = FALSE
    /\ show_admin_login = FALSE
    /\ df_raw = <<>>
    /\ load_error = FALSE
    /\ new_mapping = <<>>
    /\ page = NoPage
    /\ event = NoEvent

(***************************************************************************)
(* SpecMap: apply_mapping on every table and mapping of the bounds         *)
(***************************************************************************)
InitMap ==
    /\ LinksIdle
    /\ SessionIdle
    /\ df \in MapTables
    /\ mapping \in Mappings
    /\ mapped = NotCalled
    /\ ClientIdle

ApplyMapping ==
    /\ mapped.kind = "none"
    /\ mapped' = apply_mapping(df, mapping)
    /\ UNCHANGED <<links, session, df, mapping, client>>

NextMap == ApplyMapping

SpecMap == InitMap /\ [][NextMap]_vars

(***************************************************************************)
(* Claims about apply_mapping (checked under SpecMap)                      *)
(***************************************************************************)
MandatoryFields == {"BK_Number", "BK_name", "BK_rate", "BK_row"}

TextFields == {"BK_Number", "BK_name", "BK_rate", "BK_row"}

Called == mapped.kind # "none"

\* field f is unset in the mapping: its key is absent, or its value is ""
Unset(f) == \A i \in 1..Len(mapping) : mapping[i][1] = f => mapping[i][2] = ""

Assigned(f) == \E i \in 1..Len(mapping) : mapping[i][1] = f /\ mapping[i][2] # ""

ColumnFor(f) == mapping[CHOOSE i \in 1..Len(mapping) : mapping[i][1] = f][2]

Header == {df.columns[i] : i \in 1..Len(df.columns)}

MandatoryAssigned == \A f \in MandatoryFields : Assigned(f)

MandatoryExist == \A f \in MandatoryFields : Assigned(f) /\ ColumnFor(f) \in Header

\* the columns that some field is assigned and the table does not have
AssignedButAbsent ==
    {ColumnFor(f) : f \in {g \in Range(APP_FIELDS) : Assigned(g)}} \ Header

\* C1: with every mandatory field assigned an existing column and the image
\* reference unset (key absent, or ""), apply_mapping succeeds and every mapped
\* row has BK_image = "".
C1_UnsetImageGivesEmptyImageRef ==
    (Called /\ MandatoryExist /\ Unset("BK_image"))
        => /\ mapped.kind = "ok"
           /\ \A i \in 1..Len(mapped.rows) : mapped.rows[i].BK_image = <<>>

\* C2: when a mandatory field is absent or "", apply_mapping fails with the
\* mapping-incomplete error listing exactly the unset mandatory fields, also when
\* other mapped columns do not exist in the table.
C2_IncompleteMappingReported ==
    (Called /\ ~MandatoryAssigned)
        => /\ mapped.kind = "MappingIncomplete"
           /\ Range(mapped.fields) = {f \in MandatoryFields : Unset(f)}
           /\ Len(mapped.fields) = Cardinality({f \in MandatoryFields : Unset(f)})
           /\ mapped.rows = <<>>

\* C2's case: a mandatory field is unset while another field is assigned a column
\* the table does not have, and the call has reported the incomplete mapping.
C2_Witness ==
    /\ mapped.kind = "MappingIncomplete"
    /\ ~MandatoryAssigned
    /\ AssignedButAbsent # {}
    /\ Len(mapped.fields) >= 2

\* C3: with every mandatory field set, when some field is assigned a column the
\* table does not have, apply_mapping fails with the column-not-found error naming
\* such a column and listing all of the table's columns, and returns no table.
C3_MissingColumnNamed ==
    (Called /\ MandatoryAssigned /\ AssignedButAbsent # {})
        => /\ mapped.kind = "ColumnNotFound"
           /\ mapped.column \in AssignedButAbsent
           /\ mapped.found = df.columns
           /\ mapped.rows = <<>>

\* the mapping is valid: every mandatory field is assigned an existing column, and
\* the image key is absent or assigned an existing column
ValidMapping ==
    /\ MandatoryExist
    /\ \A i \in 1..Len(mapping) : mapping[i][2] \in Header

\* C4: for a valid mapping apply_mapping returns as many rows as the input, and
\* row i's field f is the cleaned text of input row i's cell at column mapping[f],
\* for every assigned field f, also when two fields are assigned the same column.
C4_CellsCopiedPerField ==
    (Called /\ ValidMapping)
        => /\ mapped.kind = "ok"
           /\ Len(mapped.rows) = Len(df.rows)
           /\ \A i \in 1..Len(mapped.rows) :
                \A f \in {g \in Range(APP_FIELDS) : Assigned(g)} :
                    mapped.rows[i][f] = clean_cell(f, df.rows[i][ColumnFor(f)])

\* C5: after a successful apply_mapping no BK_Number, BK_name, BK_rate or BK_row
\* value starts or ends with whitespace, and none is "nan", "None" or "<NA>".
C5_NoPaddingNoMissingToken ==
    mapped.kind = "ok"
        => \A i \in 1..Len(mapped.rows) : \A f \in TextFields :
              LET v == mapped.rows[i][f]
              IN /\ v # <<>> => (v[1] \notin Whitespace /\ v[Len(v)] \notin Whitespace)
                 /\ v \notin MissingTokens

\* the text with every run of whitespace collapsed to one space and no
\* whitespace at either end
RECURSIVE CollapseRuns(_)
CollapseRuns(s) ==
    IF Len(s) < 2
    THEN s
    ELSE IF s[1] \in Whitespace /\ s[2] \in Whitespace
    THEN CollapseRuns(<<" ">> \o SubSeq(s, 3, Len(s)))
    ELSE IF s[1] \in Whitespace
    THEN <<" ">> \o CollapseRuns(Tail(s))
    ELSE <<s[1]>> \o CollapseRuns(Tail(s))

NormalizeWhitespace(s) == strip(CollapseRuns(s))

HasWhitespaceRun(s) ==
    \E i \in 1..(Len(s) - 1) : s[i] \in Whitespace /\ s[i + 1] \in Whitespace

\* no two fields are assigned the same column
DistinctColumns ==
    \A i, j \in 1..Len(mapping) : mapping[i][2] = mapping[j][2] => i = j

\* C6: every mapped row's _search is the lower-case, whitespace-normalized join of
\* BK_Number, BK_name, BK_rate and BK_row: no run of two whitespace characters and
\* no whitespace at either end, also when a field is empty.  Stated for the
\* mappings that give every field a column of its own, where an empty field comes
\* from an empty cell only.
C6_SearchKeyWhitespaceNormalized ==
    (mapped.kind = "ok" /\ DistinctColumns)
        => \A i \in 1..Len(mapped.rows) :
              LET r == mapped.rows[i]
                  key == r._search
              IN /\ key = NormalizeWhitespace(lower(
                            r.BK_Number \o <<" ">> \o r.BK_name \o <<" ">>
                                \o r.BK_rate \o <<" ">> \o r.BK_row))
                 /\ ~HasWhitespaceRun(key)
                 /\ key = strip(key)

(***************************************************************************)
(* The search component (the script of render_search_interface)            *)
(***************************************************************************)
\* performSearch's result set with the blank-query test on the raw query
\* (`!query` in place of `!query.trim()`)
search_results_untrimmed_test(data, query, mode, exactId) ==
    LET ById(item) == item.BK_Number = exactId
        ByText(item) == includes(item._search, strip(lower(query)))
    IN IF query = <<>>
       THEN <<>>
       ELSE IF mode = "single" /\ exactId # <<>>
       THEN SelectSeq(data, ById)
       ELSE SelectSeq(data, ByText)

\* performSearch's result set without query.toLowerCase()
search_results_case_sensitive(data, query, mode, exactId) ==
    LET ById(item) == item.BK_Number = exactId
        ByText(item) == includes(item._search, strip(query))
    IN IF strip(query) = <<>>
       THEN <<>>
       ELSE IF mode = "single" /\ exactId # <<>>
       THEN SelectSeq(data, ById)
       ELSE SelectSeq(data, ByText)

\* currentResults after performSearch(query, mode, exactId); exactId is <<>> for a
\* call that passes none (null and '' are both falsy)
search_results(data, query, mode, exactId) ==
    LET ById(item) == item.BK_Number = exactId
        ByText(item) == includes(item._search, strip(lower(query)))
    IN IF strip(query) = <<>>
       THEN <<>>
       ELSE IF mode = "single" /\ exactId # <<>>
       THEN SelectSeq(data, ById)
       ELSE SelectSeq(data, ByText)

\* input.value after performSearch: `currentResults[0]?.BK_name || query` in the
\* single branch, untouched otherwise
input_after_search(data, query, mode, exactId, value) ==
    LET found == search_results(data, query, mode, exactId)
    IN IF strip(query) # <<>> /\ mode = "single" /\ exactId # <<>>
       THEN IF found # <<>> /\ found[1].BK_name # <<>>
            THEN found[1].BK_name
            ELSE query
       ELSE value

\* resultsArea after performSearch: the welcome card, or what renderCards shows
results_area_after_search(data, query, mode, exactId) ==
    IF strip(query) = <<>>
    THEN "welcome"
    ELSE IF search_results(data, query, mode, exactId) = <<>>
    THEN "no-matches"
    ELSE "cards"

\* renderCards with the whole result set repeated at every Show More: the first
\* page only
render_cards_first_page(results, limit) ==
    SubSeq(results, 1, IF Len(results) < PageSize THEN Len(results) ELSE PageSize)

\* renderCards: toShow = currentResults.slice(0, displayLimit), one card each
render_cards(results, limit) ==
    SubSeq(results, 1, IF Len(results) < limit THEN Len(results) ELSE limit)

\* renderCards: the Show More button is appended when
\* currentResults.length > displayLimit
show_more_offered(results, limit) == Len(results) > limit

\* the whole of performSearch, called with input.value = value
performSearch(query, mode, exactId, value) ==
    /\ displayLimit' = PageSize
    /\ dropdown' = [dropdown EXCEPT !.shown = FALSE]
    /\ currentResults' = search_results(allData, query, mode, exactId)
    /\ inputValue' = input_after_search(allData, query, mode, exactId, value)
    /\ resultsArea' = results_area_after_search(allData, query, mode, exactId)
    /\ cards' = render_cards(search_results(allData, query, mode, exactId), PageSize)
    /\ showMore' =
          show_more_offered(search_results(allData, query, mode, exactId), PageSize)
    /\ moreClicks' = 0
    /\ lastCall' = [called |-> TRUE, query |-> query, mode |-> mode,
                    exactId |-> exactId, hadResults |-> currentResults # <<>>]

\* allData.filter(item => item._search.includes(val)).slice(0, 7)
suggestions(data, val) ==
    LET Hit(item) == includes(item._search, val)
        hits == SelectSeq(data, Hit)
    IN SubSeq(hits, 1, IF Len(hits) < MaxSuggestions THEN Len(hits) ELSE MaxSuggestions)

\* What the user may type into the search box.
TypedTexts ==
    {<<>>, <<" ">>, <<"7">>, <<"7","0">>, <<"a"," ","b">>, <<"A"," ","B">>,
     <<"a"," "," ","b">>, <<" ","C","a","t"," ">>, <<"z","z">>}

\* input.oninput, after the user has changed the text of the box to text
OnInput(text) ==
    /\ text # inputValue
    /\ clearBtn' = (text # <<>>)
    /\ IF lower(strip(text)) = <<>>
       THEN performSearch(<<>>, "all", <<>>, text)
       ELSE /\ dropdown' =
                [shown |-> TRUE, all |-> text,
                 items |-> suggestions(allData, lower(strip(text)))]
            /\ inputValue' = text
            /\ UNCHANGED <<currentResults, displayLimit, resultsArea, cards,
                           showMore, moreClicks, lastCall>>
    /\ UNCHANGED <<links, session, df, mapping, mapped, allData>>

\* a click on the dropdown's "Show all matching" entry
ClickShowAll ==
    /\ dropdown.shown
    /\ performSearch(dropdown.all, "all", <<>>, inputValue)
    /\ UNCHANGED <<links, session, df, mapping, mapped, allData, clearBtn>>

\* a click on the dropdown entry of the i-th suggested row
ClickSuggestion(i) ==
    /\ dropdown.shown
    /\ i \in 1..Len(dropdown.items)
    /\ performSearch(dropdown.items[i].BK_name, "single",
                     dropdown.items[i].BK_Number, inputValue)
    /\ UNCHANGED <<links, session, df, mapping, mapped, allData, clearBtn>>

\* a click on the search button
ClickSearch ==
    /\ performSearch(inputValue, "all", <<>>, inputValue)
    /\ UNCHANGED <<links, session, df, mapping, mapped, allData, clearBtn>>

\* input.onkeypress with the Enter key
PressEnter ==
    /\ performSearch(inputValue, "all", <<>>, inputValue)
    /\ UNCHANGED <<links, session, df, mapping, mapped, allData, clearBtn>>

\* window.clearSearch, the handler of the clear button
ClearSearch ==
    /\ clearBtn
    /\ clearBtn' = FALSE
    /\ performSearch(<<>>, "all", <<>>, <<>>)
    /\ UNCHANGED <<links, session, df, mapping, mapped, allData>>

\* the document's click listener, for a click outside the search container
ClickOutside ==
    /\ dropdown.shown
    /\ dropdown' = [dropdown EXCEPT !.shown = FALSE]
    /\ UNCHANGED <<links, session, df, mapping, mapped, allData, inputValue, clearBtn,
                   currentResults, displayLimit, resultsArea, cards, showMore,
                   moreClicks, lastCall>>

(***************************************************************************)
(* SpecSearch: the search component over the mapped rows of a sheet        *)
(***************************************************************************)
SearchSheet == <<"No", "Title", "Rate", "Rack", "Img">>

\* Raw rows of the searched sheets: an ordinary row; a row without a rate
\* whose number contains the first row's; a row without a title that shares the
\* first row's number; a row without a number and without a rack.
SearchRowPool ==
    {[No |-> <<"7">>, Title |-> <<"A"," ","b">>, Rate |-> <<"2","5">>,
      Rack |-> <<"R","1">>, Img |-> ShareLink],
     [No |-> <<"7","0">>, Title |-> <<"C","a","t">>, Rate |-> <<"n","a","n">>,
      Rack |-> <<"R","2">>, Img |-> <<"n","a","n">>],
     [No |-> <<"7">>, Title |-> <<"n","a","n">>, Rate |-> <<"3","0">>,
      Rack |-> <<"R","1">>, Img |-> <<"n","a","n">>],
     [No |-> <<"n","a","n">>, Title |-> <<"C","a","t">>, Rate |-> <<"2","5">>,
      Rack |-> <<"n","a","n">>, Img |-> <<"n","a","n">>]}

SearchTables ==
    {TableOf(SearchSheet, rs) : rs \in SeqsUpTo(SearchRowPool, MaxRows)}

\* the mapping the form saves for SearchSheet
SavedMapping ==
    << <<"BK_Number", "No">>, <<"BK_name", "Title">>, <<"BK_rate", "Rate">>,
       <<"BK_row", "Rack">>, <<"BK_image", "Img">> >>

InitSearch ==
    /\ LinksIdle
    /\ SessionIdle
    /\ df \in SearchTables
    /\ mapping = SavedMapping
    /\ mapped = apply_mapping(df, mapping)
    /\ allData = search_json(mapped)
    /\ inputValue = <<>>
    /\ clearBtn = FALSE
    /\ dropdown = NoDropdown
    /\ currentResults = <<>>
    /\ displayLimit = PageSize
    /\ resultsArea = "welcome"
    /\ cards = <<>>
    /\ showMore = FALSE
    /\ moreClicks = 0
    /\ lastCall = NoCall

NextSearch ==
    \/ \E text \in TypedTexts : OnInput(text)
    \/ ClickShowAll
    \/ \E i \in 1..MaxSuggestions : ClickSuggestion(i)
    \/ ClickSearch
    \/ PressEnter
    \/ ClearSearch
    \/ ClickOutside

SpecSearch == InitSearch /\ [][NextSearch]_vars

(***************************************************************************)
(* Claims about the search component (checked under SpecSearch)            *)
(***************************************************************************)
IsBlank(q) == \A i \in 1..Len(q) : q[i] \in Whitespace

\* q occurs in key as a contiguous substring
OccursIn(key, q) ==
    \E off \in 0..(Len(key) - Len(q)) : \A j \in 1..Len(q) : key[off + j] = q[j]

\* the k-th smallest member of a set of row positions
Kth(idx, k) == CHOOSE i \in idx : Cardinality({j \in idx : j <= i}) = k

\* result is exactly the rows of allData at the positions idx, each once, in
\* their original order
IsSubsequenceAt(result, idx) ==
    /\ Len(result) = Cardinality(idx)
    /\ \A k \in 1..Len(result) : result[k] = allData[Kth(idx, k)]

KeyMatches(q) == {i \in 1..Len(allData) : OccursIn(allData[i]._search, q)}

\* any other text gives the same result when it differs from the query only in
\* letter case
SameUpToCase ==
    \A q \in TypedTexts :
        lower(q) = lower(lastCall.query)
            => search_results(allData, q, "all", <<>>) = currentResults

\* C7 as stated: for every non-empty query, the free-text search sets the result
\* to exactly the rows whose _search contains the lower-cased, trimmed query, each
\* once and in the original order, whatever the query's letter case.
C7_FreeTextSearchOfNonEmptyQuery ==
    (lastCall.called /\ lastCall.mode = "all" /\ lastCall.query # <<>>)
        => /\ IsSubsequenceAt(currentResults, KeyMatches(lower(strip(lastCall.query))))
           /\ SameUpToCase

\* C7 as amended: the same for every query that is not blank, that is, not empty
\* once trimmed.
C7_FreeTextSearchOfNonBlankQuery ==
    (lastCall.called /\ lastCall.mode = "all" /\ ~IsBlank(lastCall.query))
        => /\ IsSubsequenceAt(currentResults, KeyMatches(lower(strip(lastCall.query))))
           /\ SameUpToCase

\* C7's case: a padded upper-case query has selected some rows of the table and
\* left out others.
C7_Witness ==
    /\ lastCall.called
    /\ lastCall.mode = "all"
    /\ lastCall.query # lower(strip(lastCall.query))
    /\ lower(lastCall.query) # lastCall.query
    /\ currentResults # <<>>
    /\ Len(currentResults) < Len(allData)

\* C8: the query is matched with its internal runs of whitespace collapsed to one
\* space, so two queries that differ only in the amount of internal whitespace
\* return the same rows.
C8_InternalWhitespaceCollapsed ==
    (lastCall.called /\ lastCall.mode = "all")
        => /\ ~IsBlank(lastCall.query)
                => IsSubsequenceAt(currentResults,
                       KeyMatches(NormalizeWhitespace(lower(lastCall.query))))
           /\ \A q \in TypedTexts :
                NormalizeWhitespace(lower(q)) = NormalizeWhitespace(lower(lastCall.query))
                    => search_results(allData, q, "all", <<>>) = currentResults

\* C9: a search with an empty or whitespace-only query leaves the result set
\* empty and shows the welcome card, whatever the mode and whatever was shown.
C9_BlankQueryGivesNoRows ==
    (lastCall.called /\ IsBlank(lastCall.query))
        => /\ currentResults = <<>>
           /\ resultsArea = "welcome"

\* C9's case: while a non-empty result set was shown, the user replaced the text
\* of the box by whitespace only; the search that followed had a blank query and
\* no row is shown now.
C9_Witness ==
    /\ lastCall.called
    /\ IsBlank(lastCall.query)
    /\ inputValue = <<" ">>
    /\ lastCall.hadResults
    /\ allData # <<>>
    /\ currentResults = <<>>

\* C10: after a suggestion is selected (performSearch in mode 'single' with the
\* row's BK_Number), the result is exactly the rows whose BK_Number equals that
\* identifier, also for a row whose BK_name or BK_Number is empty.
C10_SuggestionSelectsExactIdentifier ==
    (lastCall.called /\ lastCall.mode = "single")
        => IsSubsequenceAt(currentResults,
               {i \in 1..Len(allData) : allData[i].BK_Number = lastCall.exactId})

(***************************************************************************)
(* SpecPage: the search component over sheets long enough to be paged      *)
(***************************************************************************)
\* window.increaseLimit, the handler of the Show More button
IncreaseLimit ==
    /\ showMore
    /\ displayLimit' = displayLimit + PageSize
    /\ cards' = render_cards(currentResults, displayLimit + PageSize)
    /\ showMore' = show_more_offered(currentResults, displayLimit + PageSize)
    /\ resultsArea' = IF currentResults = <<>> THEN "no-matches" ELSE "cards"
    /\ moreClicks' = moreClicks + 1
    /\ UNCHANGED <<links, session, df, mapping, mapped, allData, inputValue, clearBtn, dropdown,
                   currentResults, lastCall>>

MaxSheetRows == 103

DigitChars == <<"0","1","2","3","4","5","6","7","8","9">>

\* the decimal text of a row number
RECURSIVE Digits(_)
Digits(n) ==
    IF n < 10
    THEN <<DigitChars[n + 1]>>
    ELSE Digits(n \div 10) \o <<DigitChars[(n % 10) + 1]>>

\* Row i of a long sheet: numbered i; the first two rows are titled "A b", the
\* others "Cat".
LongSheetRow(i) ==
    [No |-> Digits(i),
     Title |-> IF i <= 2 THEN <<"A"," ","b">> ELSE <<"C","a","t">>,
     Rate |-> <<"2","5">>, Rack |-> <<"R","1">>, Img |-> <<"n","a","n">>]

\* sheet lengths around the page boundaries
SheetLengths ==
    {0, 1, PageSize, PageSize + 1, 2 * PageSize, 2 * PageSize + 1, MaxSheetRows}

LongTables ==
    {TableOf(SearchSheet, [i \in 1..n |-> LongSheetRow(i)]) : n \in SheetLengths}

InitPage ==
    /\ LinksIdle
    /\ SessionIdle
    /\ df \in LongTables
    /\ mapping = SavedMapping
    /\ mapped = apply_mapping(df, mapping)
    /\ allData = search_json(mapped)
    /\ inputValue = <<>>
    /\ clearBtn = FALSE
    /\ dropdown = NoDropdown
    /\ currentResults = <<>>
    /\ displayLimit = PageSize
    /\ resultsArea = "welcome"
    /\ cards = <<>>
    /\ showMore = FALSE
    /\ moreClicks = 0
    /\ lastCall = NoCall

NextPage ==
    \/ NextSearch
    \/ IncreaseLimit

SpecPage == InitPage /\ [][NextPage]_vars

(***************************************************************************)
(* Claims about paging (checked under SpecPage)                            *)
(***************************************************************************)
Smaller(a, b) == IF a < b THEN a ELSE b

\* the first n rows of a result set
FirstRows(results, n) == [i \in 1..n |-> results[i]]

\* after a search and moreClicks clicks on Show More, the cards are the first
\* min(50 * (moreClicks + 1), |currentResults|) rows, the button is offered exactly
\* when rows remain, and a free-text result set is the full filter of allData
PagedView ==
    lastCall.called
        => /\ cards = FirstRows(currentResults,
                         Smaller(PageSize * (moreClicks + 1), Len(currentResults)))
           /\ showMore = (Len(currentResults) > Len(cards))
           /\ (lastCall.mode = "all" /\ ~IsBlank(lastCall.query))
                => IsSubsequenceAt(currentResults,
                                   KeyMatches(lower(strip(lastCall.query))))

\* C11: after any search followed by k clicks on Show More the rendered cards are
\* exactly the first min(50*(k+1), |results|) rows of the full result set in
\* order, Show More is offered exactly when the result set has more rows than are
\* shown, and a click on Show More leaves currentResults unchanged.
C11_ShowMoreWindowsTheFullResult ==
    /\ []PagedView
    /\ [][moreClicks' = moreClicks + 1 => currentResults' = currentResults]_vars

\* C11's case: one click on Show More has widened the window to 100 cards of a
\* result set with more than 100 rows, and the button is offered again.
C11_Witness ==
    /\ lastCall.called
    /\ moreClicks = 1
    /\ Len(cards) = 2 * PageSize
    /\ Len(currentResults) > 2 * PageSize
    /\ showMore

(***************************************************************************)
(* The link rewriter on its own: fix_drive_url when the mapped rows are    *)
(* built, fixDriveUrl when the client opens a row's details                *)
(***************************************************************************)
\* the client's copy: two branches only
fileId_of(u) ==
    IF includes(u, FileD)
    THEN SplitHead(SplitSecond(u, FileD), <<"/">>)
    ELSE IF includes(u, IdEq)
    THEN SplitHead(SplitSecond(u, IdEq), <<"&">>)
    ELSE <<>>

fixDriveUrl(u) ==
    IF u = <<>> \/ ~includes(u, DriveHost)
    THEN u
    ELSE IF fileId_of(u) # <<>>
    THEN ThumbnailPrefix \o fileId_of(u) \o ThumbnailSuffix
    ELSE u

\* A link is written from its parts: https:// host path [?name=value&...].
\* shape "file" is the path /file/d/<file_id><rest>, shape "plain" the path
\* <rest>, shape "none" the empty text.
MaxParams == 2

OtherHost == <<"e","x",".","c","o","m">>

Hosts == {DriveHost, OtherHost}

FileIds == {<<>>, <<"x">>, <<"A","b">>}

FileRests == {<<>>, <<"/","v","i","e","w">>}

PlainRests == {<<"/","o","p","e","n">>, <<"/","u","c">>,
               <<"/","t","h","u","m","b","n","a","i","l">>,
               <<"/","a",".","p","n","g">>}

IdName == <<"i","d">>

ParamPool ==
    {<<IdName, v>> : v \in FileIds}
        \cup {<<<<"u","i","d">>, <<"5">>>>,
              <<<<"u","s","p">>, <<"s">>>>,
              <<<<"s","z">>, <<"w","1","0","0","0">>>>,
              <<<<"r","e","f">>, DriveHost>>}

DistinctNames(ps) == \A i, j \in 1..Len(ps) : ps[i][1] = ps[j][1] => i = j

Queries == {ps \in SeqsUpTo(ParamPool, MaxParams) : DistinctNames(ps)}

Links ==
    {NoLink}
        \cup {[host |-> h, shape |-> "file", file_id |-> i, rest |-> r,
               params |-> ps] :
                  h \in Hosts, i \in FileIds, r \in FileRests, ps \in Queries}
        \cup {[host |-> h, shape |-> "plain", file_id |-> <<>>, rest |-> r,
               params |-> ps] :
                  h \in Hosts, r \in PlainRests, ps \in Queries}

RECURSIVE QueryText(_)
QueryText(ps) ==
    IF ps = <<>> THEN <<>>
    ELSE ps[1][1] \o <<"=">> \o ps[1][2]
             \o (IF Len(ps) = 1 THEN <<>> ELSE <<"&">> \o QueryText(Tail(ps)))

PathText(l) == IF l.shape = "file" THEN FileD \o l.file_id \o l.rest ELSE l.rest

UrlText(l) ==
    IF l.shape = "none" THEN <<>>
    ELSE Https \o l.host \o PathText(l)
             \o (IF l.params = <<>> THEN <<>> ELSE <<"?">> \o QueryText(l.params))

InitUrl ==
    /\ link \in Links
    /\ raw_url = UrlText(link)
    /\ stored = NotRewritten
    /\ shown = NotRewritten
    /\ SessionIdle
    /\ df = TableOf(<<>>, <<>>)
    /\ mapping = <<>>
    /\ mapped = NotCalled
    /\ ClientIdle

\* apply_mapping cleans the BK_image cell with fix_drive_url
FixDriveUrl ==
    /\ ~stored.done
    /\ stored' = [done |-> TRUE, value |-> fix_drive_url(raw_url)]
    /\ UNCHANGED <<link, raw_url, shown, session, df, mapping, mapped, client>>

\* showDetails passes the row's BK_image through fixDriveUrl
ShowDetails ==
    /\ stored.done
    /\ ~shown.done
    /\ shown' = [done |-> TRUE, value |-> fixDriveUrl(stored.value)]
    /\ UNCHANGED <<link, raw_url, stored, session, df, mapping, mapped, client>>

NextUrl ==
    \/ FixDriveUrl
    \/ ShowDetails

SpecUrl == InitUrl /\ [][NextUrl]_vars

(***************************************************************************)
(* Claims about the link rewriter                                          *)
(***************************************************************************)
OnHostingDomain(l) == l.shape # "none" /\ l.host = DriveHost

\* the value of the query parameter named n, <<>> when there is none
ParamValue(l, n) ==
    IF \E i \in 1..Len(l.params) : l.params[i][1] = n
    THEN l.params[CHOOSE i \in 1..Len(l.params) : l.params[i][1] = n][2]
    ELSE <<>>

\* the path is /file/d/<ID>/... with a non-empty ID
PathShape(l) == l.shape = "file" /\ l.file_id # <<>> /\ l.rest # <<>>

\* no /file/d/ in the path, and an id query parameter with a non-empty value
QueryShape(l) == l.shape = "plain" /\ ParamValue(l, IdName) # <<>>

DirectContentUrl(id) == ThumbnailPrefix \o id \o ThumbnailSuffix

\* C12: for a URL on the hosting domain, fix_drive_url returns the
\* thumbnail URL of the path segment after /file/d/ when the path has the
\* shape /file/d/<ID>/..., and of the value of the id query parameter when
\* the identifier is carried by the query, whatever parameters precede it.
C12_RecognizedShapesRewritten ==
    (stored.done /\ OnHostingDomain(link)) =>
        /\ PathShape(link) => stored.value = DirectContentUrl(link.file_id)
        /\ QueryShape(link) =>
               stored.value = DirectContentUrl(ParamValue(link, IdName))

\* C13: fix_drive_url returns its input when the input is empty, is not a
\* URL of the hosting domain, or has neither a /file/d/<ID> path segment
\* with a non-empty ID nor an id query parameter with a non-empty value.
\* (fix_drive_url is total here: each split(...)[1] is guarded by the
\* substring test before it, so no input makes it raise.)
C13_OtherInputsUnchanged ==
    (/\ stored.done
     /\ \/ raw_url = <<>>
        \/ ~OnHostingDomain(link)
        \/ /\ ~(link.shape = "file" /\ link.file_id # <<>>)
           /\ ParamValue(link, IdName) = <<>>)
        => stored.value = raw_url

\* C18: the link the details modal displays (fixDriveUrl applied to the
\* row's BK_image) is the link fix_drive_url stored in the row: rewriting a
\* rewritten link changes nothing.
C18_RewriterIdempotent == shown.done => shown.value = stored.value

(***************************************************************************)
(* The page: session flags, the login prompt, the admin panel and the      *)
(* public search.  Streamlit runs the script from top to bottom after      *)
(* every interaction; an action below is the interaction together with the *)
(* run (or the runs, where the handler calls st.rerun) that follows it.    *)
(* cfg is config.json as the script sees it after load_config and the      *)
(* three setdefault calls.                                                 *)
(***************************************************************************)
ADMIN_PASSWORD == "mother"

\* what the user may type into the password box
Passwords == {"mother", "Mother", ""}

IdChars ==
    Range(UpperCase) \cup Range(LowerCase) \cup Range(DigitChars) \cup {"-", "_"}

\* re.search(r"/d/([a-zA-Z0-9-_]+)", url or ""): group 1 of the leftmost
\* match, <<>> for None
extract_sheet_id(u) ==
    LET starts == {i \in 1..(Len(u) - 3) :
                      /\ SubSeq(u, i, i + 2) = <<"/","d","/">>
                      /\ u[i + 3] \in IdChars}
    IN IF starts = {} THEN <<>>
       ELSE LET i == CHOOSE k \in starts : \A m \in starts : k <= m
                j == CHOOSE k \in (i + 3)..Len(u) :
                        /\ \A m \in (i + 3)..k : u[m] \in IdChars
                        /\ k = Len(u) \/ u[k + 1] \notin IdChars
            IN SubSeq(u, i + 3, j)

\* what the load block of a run can end with: the table, a load error, or
\* neither when `s_id and s_name` is false
fetch_outcomes(c) ==
    IF extract_sheet_id(c.sheet_url) # <<>> /\ c.sheet_name # ""
    THEN {"fetched", "failed"}
    ELSE {"skipped"}

\* current.get(k, "")
dict_get_or_empty(d, k) == IF k \in dict_keys(d) THEN dict_get(d, k) ELSE ""

\* the selections a freshly rendered form shows: the current mapping's column
\* where it is among the options, the empty option otherwise
form_defaults(current, sheet_cols) ==
    [i \in 1..Len(APP_FIELDS) |->
        <<APP_FIELDS[i],
          IF dict_get_or_empty(current, APP_FIELDS[i]) \in Range(sheet_cols)
          THEN dict_get_or_empty(current, APP_FIELDS[i])
          ELSE "">>]

\* new_mapping with the selectbox of field f set to v
form_with(form, f, v) ==
    [i \in 1..Len(form) |-> IF form[i][1] = f THEN <<f, v>> ELSE form[i]]

\* a Login button that lets every password in
password_accepted_always(pwd) == TRUE

\* pwd == ADMIN_PASSWORD
password_accepted(pwd) == pwd = ADMIN_PASSWORD

\* a Login handler that sets is_admin and leaves show_admin_login as it is
login_keeps_prompt(pwd, a, s) ==
    IF password_accepted(pwd) THEN <<TRUE, s>> ELSE <<a, s>>

\* <<is_admin, show_admin_login>> after the Login button's handler
login_flags(pwd, a, s) ==
    IF password_accepted(pwd) THEN <<TRUE, FALSE>> ELSE <<a, s>>

\* the form and its Save button outside `if st.session_state.is_admin`
setup_form_for_everyone(a, e, d) == ~e /\ d # <<>>

\* the Setup & Mapping tab reaches its form and its Save button
setup_form_rendered(a, e, d) == a /\ ~e /\ d # <<>>

\* the Setup & Mapping tab evaluates df_raw.columns while df_raw is None
setup_tab_fails(a, e, d) == a /\ ~e /\ d = <<>>

\* what a run renders with is_admin = a, show_admin_login = s,
\* load_error = e and df_raw = d, where result is what
\* apply_mapping(df_raw, cfg.get("mapping", {})) gives; wrong tells that the
\* run was started by a Login click with a wrong password
render(a, s, e, d, result, wrong) ==
    [rendered |-> TRUE,
     login_prompt |-> s /\ ~a,
     wrong_password |-> wrong,
     admin_panel |-> a,
     mapping_form |-> setup_form_rendered(a, e, d),
     public_search |-> ~setup_tab_fails(a, e, d) /\ ~a,
     search_component |-> ~e /\ d # <<>> /\ result.kind = "ok",
     failed |-> setup_tab_fails(a, e, d)]

\* The sheets of the page: one column, a single row or one row more than a
\* page of results.
PageColumns == <<"Book">>

PageSheetRow(i) == [Book |-> <<"C","a","t">>]

PageSheets ==
    {TableOf(PageColumns, [i \in 1..n |-> PageSheetRow(i)]) : n \in {1, PageSize + 1}}

\* https://docs.google.com/spreadsheets/d/a-1/edit
SheetUrl ==
    Https \o <<"d","o","c","s",".","g","o","o","g","l","e",".","c","o","m",
               "/","s","p","r","e","a","d","s","h","e","e","t","s",
               "/","d","/","a","-","1","/","e","d","i","t">>

\* a mapping written into config.json by hand: no BK_image key
HandWrittenMapping ==
    << <<"BK_Number", "Book">>, <<"BK_name", "Book">>, <<"BK_rate", "Book">>,
       <<"BK_row", "Book">> >>

\* config.json when the page is opened: absent, with a sheet and no mapping,
\* with a sheet and a mapping, with a sheet URL that holds no id
StartConfigs ==
    {DefaultConfig,
     [DefaultConfig EXCEPT !.sheet_url = SheetUrl],
     [DefaultConfig EXCEPT !.sheet_url = SheetUrl, !.mapping = HandWrittenMapping],
     [DefaultConfig EXCEPT !.sheet_url = Https]}

\* every new_mapping the form can hold
PageForms ==
    {[i \in 1..Len(APP_FIELDS) |-> <<APP_FIELDS[i], v[i]>>] :
        v \in [1..Len(APP_FIELDS) -> {""} \cup Range(PageColumns)]}

\* every mapping config.json can come to hold
PageMappings == {c.mapping : c \in StartConfigs} \cup PageForms

\* apply_mapping(df_raw, mapping) for the sheets and mappings of the page
mapped_of == [t \in PageSheets |-> [m \in PageMappings |-> apply_mapping(t, m)]]

\* One run of the script with is_admin = a, show_admin_login = s and
\* configuration c, started by the interaction ev.  form is what the form's
\* selectboxes hold if the form was on the page before the run and is again
\* after it; a form that appears anew shows its defaults.  The search
\* component is embedded anew with the run's records and starts from its
\* initial state.
Run(a, s, c, wrong, ev, form) ==
    \E o \in fetch_outcomes(c) :
        LET d == IF o = "fetched" THEN <<sheet>> ELSE <<>>
            e == o = "failed"
            result == IF o = "fetched" THEN mapped_of[sheet][c.mapping] ELSE NotCalled
            pg == render(a, s, e, d, result, wrong)
        IN /\ is_admin' = a
           /\ show_admin_login' = s
           /\ cfg' = c
           /\ df_raw' = d
           /\ load_error' = e
           /\ page' = pg
           /\ event' = ev
           /\ new_mapping' =
                 IF ~pg.mapping_form THEN <<>>
                 ELSE IF page.mapping_form THEN form
                 ELSE form_defaults(c.mapping, sheet.columns)
           /\ allData' = IF pg.search_component THEN search_json(result) ELSE <<>>
           /\ inputValue' = <<>>
           /\ clearBtn' = FALSE
           /\ dropdown' = NoDropdown
           /\ currentResults' = <<>>
           /\ displayLimit' = PageSize
           /\ resultsArea' = "welcome"
           /\ cards' = <<>>
           /\ showMore' = FALSE
           /\ moreClicks' = 0
           /\ lastCall' = NoCall
           /\ UNCHANGED <<links, sheet, df, mapping, mapped>>

Ev(name) == [name |-> name, pwd |-> ""]

\* the browser opens the page: the first run of the script
OpenPage ==
    /\ ~page.rendered
    /\ Run(is_admin, show_admin_login, cfg, FALSE, Ev("open"), <<>>)

\* the gear button of the header, rendered while not is_admin
ClickAdminButton ==
    /\ page.rendered
    /\ ~is_admin
    /\ Run(is_admin, TRUE, cfg, FALSE, Ev("admin_btn"), new_mapping)

\* the Logout button of the header, rendered while is_admin
ClickLogout ==
    /\ page.rendered
    /\ is_admin
    /\ Run(FALSE, FALSE, cfg, FALSE, Ev("logout_btn"), new_mapping)

\* the Login button of the prompt, with pwd in the password box
ClickLogin(pwd) ==
    /\ page.login_prompt
    /\ Run(login_flags(pwd, is_admin, show_admin_login)[1],
           login_flags(pwd, is_admin, show_admin_login)[2],
           cfg, ~password_accepted(pwd), [name |-> "Login", pwd |-> pwd],
           new_mapping)

\* the Cancel button of the prompt
ClickCancel ==
    /\ page.login_prompt
    /\ Run(is_admin, FALSE, cfg, FALSE, Ev("Cancel"), new_mapping)

\* the Refresh Sheet Data button, the first widget of the Setup tab
ClickRefresh ==
    /\ page.admin_panel
    /\ Run(is_admin, show_admin_login, cfg, FALSE, Ev("Refresh"), new_mapping)

\* the admin picks option v in the selectbox of field f
SelectColumn(f, v) ==
    /\ page.mapping_form
    /\ v \in {""} \cup Range(sheet.columns)
    /\ v # dict_get(new_mapping, f)
    /\ Run(is_admin, show_admin_login, cfg, FALSE, Ev("selectbox"),
           form_with(new_mapping, f, v))

\* the Save Configuration button: cfg["mapping"] = new_mapping; save_config(cfg)
ClickSave ==
    /\ page.mapping_form
    /\ Run(is_admin, show_admin_login, [cfg EXCEPT !.mapping = new_mapping],
           FALSE, Ev("Save"), new_mapping)

\* what the user types into the search box of the page
PageTexts == {<<>>, <<"c","a","t">>}

\* the search component of the page, where a run has embedded it
UseSearch ==
    /\ page.search_component
    /\ \/ \E text \in PageTexts : OnInput(text)
       \/ ClickShowAll
       \/ \E i \in 1..MaxSuggestions : ClickSuggestion(i)
       \/ ClickSearch
       \/ PressEnter
       \/ ClearSearch
       \/ ClickOutside
       \/ IncreaseLimit

InitAdmin ==
    /\ LinksIdle
    /\ sheet \in PageSheets
    /\ cfg \in StartConfigs
    /\ is_admin = FALSE
    /\ show_admin_login = FALSE
    /\ df_raw = <<>>
    /\ load_error = FALSE
    /\ new_mapping = <<>>
    /\ page = NoPage
    /\ event = NoEvent
    /\ df = TableOf(<<>>, <<>>)
    /\ mapping = <<>>
    /\ mapped = NotCalled
    /\ ClientIdle

NextAdmin ==
    \/ OpenPage
    \/ ClickAdminButton
    \/ ClickLogout
    \/ \E pwd \in Passwords : ClickLogin(pwd)
    \/ ClickCancel
    \/ ClickRefresh
    \/ \E f \in Range(APP_FIELDS), v \in {""} \cup Range(PageColumns) :
          SelectColumn(f, v)
    \/ ClickSave
    \/ UseSearch

SpecAdmin == InitAdmin /\ [][NextAdmin]_vars

(***************************************************************************)
(* Claims about the page (checked under SpecAdmin)                         *)
(***************************************************************************)
StartMappings == {c.mapping : c \in StartConfigs}

\* C14: the mapping that Save Configuration has persisted sets each mandatory
\* field to a non-empty column name that is among the columns of the raw
\* table: it is a mapping apply_mapping accepts.
C14_SavedMappingValid ==
    event.name = "Save" =>
        /\ \A f \in Range(required_fields) :
              /\ ~is_missing(cfg.mapping, f)
              /\ dict_get(cfg.mapping, f) \in Range(sheet.columns)
        /\ apply_mapping(sheet, cfg.mapping).kind = "ok"

\* C15: the persisted configuration changes only in a step of the Save
\* Configuration button, and that button is on the page only while is_admin
\* holds; every other step (the login prompt opened or cancelled, a login, a
\* logout, a refresh, a form edit, a search, Show More) leaves it as it is.
C15_ConfigChangesOnlyBySave ==
    /\ [](page.mapping_form => is_admin)
    /\ [][cfg' # cfg =>
            /\ is_admin
            /\ page.mapping_form
            /\ event'.name = "Save"
            /\ cfg' = [cfg EXCEPT !.mapping = new_mapping]]_vars

\* a saved mapping is on disk after the admin has logged out and a visitor
\* has searched
C15_Witness ==
    /\ cfg.mapping \in PageForms
    /\ cfg.mapping \notin StartMappings
    /\ ~is_admin
    /\ lastCall.called

\* C16: is_admin starts false and becomes true only in a Login step whose
\* password is the admin secret; a Login with another password leaves
\* is_admin false and the prompt open; Logout makes is_admin false, and the
\* admin panel is on the page only while is_admin holds.
C16_AdminOnlyByCorrectPassword ==
    /\ ~is_admin
    /\ [](page.admin_panel => is_admin)
    /\ [][/\ (~is_admin /\ is_admin') =>
                /\ page.login_prompt
                /\ event'.name = "Login"
                /\ event'.pwd = ADMIN_PASSWORD
          /\ (event'.name = "Login" /\ event'.pwd # ADMIN_PASSWORD) =>
                /\ ~is_admin'
                /\ show_admin_login'
                /\ page'.login_prompt
          /\ event'.name = "logout_btn" =>
                /\ ~is_admin'
                /\ ~page'.admin_panel]_vars

\* a wrong password is refused after an admin has logged in, saved and
\* logged out
C16_Witness ==
    /\ event = [name |-> "Login", pwd |-> "Mother"]
    /\ page.wrong_password
    /\ page.login_prompt
    /\ cfg.mapping \notin StartMappings

\* C17: is_admin and show_admin_login are never both true; a run renders
\* exactly one of the admin panel and the public search, the admin panel iff
\* is_admin; the login prompt is on the page only while show_admin_login
\* holds and is_admin does not.
C17_PanelXorPublic ==
    /\ ~(is_admin /\ show_admin_login)
    /\ page.rendered =>
          /\ page.admin_panel # page.public_search
          /\ page.admin_panel = is_admin
          /\ page.login_prompt => (show_admin_login /\ ~is_admin)

\* the run after a successful login
C17_Witness ==
    /\ event = [name |-> "Login", pwd |-> ADMIN_PASSWORD]
    /\ is_admin
    /\ page.admin_panel
    /\ ~page.login_prompt

\* C19: a run that renders the admin panel with no sheet id configured
\* (df_raw None, no load error) reports it and does not end in an unhandled
\* failure.
C19_SetupTabHandlesAbsentTable ==
    (page.admin_panel /\ df_raw = <<>> /\ ~load_error) => ~page.failed

====
